---- MODULE Spec2Model ----
(***************************************************************************)
(* Model of CIS-To-Word-Specific-Param/extract_cis_to_word.py: the text    *)
(* pipeline normalize_text -> text_to_lines -> gather_anchors -> classify  *)
(* -> write_word, and main() that drives it.                               *)
(*                                                                         *)
(* A Python str is a sequence of one-character strings, so that the        *)
(* regular expressions and str methods of the source are computed on the   *)
(* characters.  "NBSP" stands for the one character U+00A0.  Python list   *)
(* indices are kept 0-based in Anchor/Control/StructHeader (start, end);   *)
(* At(lines, j) reads lines[j].  Python None is the empty sequence.        *)
(***************************************************************************)
EXTENDS Integers, Sequences, FiniteSets, TLC

VARIABLES pc, pdf_exists, pdf_text, raw, lines, anchors, controls, structs,
          buckets, orphans, doc, extract_called, dir_created, saved, printed,
          exit_msg, fn_args, fn_ret, fn_done

vars == <<pc, pdf_exists, pdf_text, raw, lines, anchors, controls, structs,
          buckets, orphans, doc, extract_called, dir_created, saved, printed,
          exit_msg, fn_args, fn_ret, fn_done>>

-----------------------------------------------------------------------------
(* Characters and str methods *)

DigitChars == <<"0", "1", "2", "3", "4", "5", "6", "7", "8", "9">>

UpperChars == <<"A", "B", "C", "D", "E", "F", "G", "H", "I", "J", "K", "L", "M", "N", "O", "P", "Q", "R", "S", "T", "U", "V", "W", "X", "Y", "Z">>

LowerChars == <<"a", "b", "c", "d", "e", "f", "g", "h", "i", "j", "k", "l", "m", "n", "o", "p", "q", "r", "s", "t", "u", "v", "w", "x", "y", "z">>

Range(s) == {s[i] : i \in 1..Len(s)}

\* \d
IsDigit(c) == c \in Range(DigitChars)

\* int() of one decimal digit
DigitVal(c) == (CHOOSE i \in 1..Len(DigitChars) : DigitChars[i] = c) - 1

\* \s and the characters str.strip() removes
WhiteSpace == {" ", "\t", "\n", "\r", "\f"}

\* the class [ \t] of collapse_spaces
BlankChars == {" ", "\t"}

\* \w
IsWordChar(c) == c \in Range(DigitChars) \cup Range(UpperChars) \cup Range(LowerChars) \cup {"_"}

LowerChar(c) ==
    IF c \in Range(UpperChars)
    THEN LowerChars[CHOOSE i \in 1..Len(UpperChars) : UpperChars[i] = c]
    ELSE c

\* str.lower()
str_lower(s) == [i \in 1..Len(s) |-> LowerChar(s[i])]

RECURSIVE str_lstrip(_, _)
\* str.lstrip(chars)
str_lstrip(s, chars) ==
    IF s # <<>> /\ Head(s) \in chars THEN str_lstrip(Tail(s), chars) ELSE s

RECURSIVE str_rstrip(_, _)
\* str.rstrip(chars)
str_rstrip(s, chars) ==
    IF s # <<>> /\ s[Len(s)] \in chars
    THEN str_rstrip(SubSeq(s, 1, Len(s) - 1), chars)
    ELSE s

\* str.strip()
str_strip(s) == str_lstrip(str_rstrip(s, WhiteSpace), WhiteSpace)

\* str.startswith(prefix)
str_startswith(s, prefix) ==
    Len(s) >= Len(prefix) /\ SubSeq(s, 1, Len(prefix)) = prefix

\* str.endswith(suffix)
str_endswith(s, suffix) ==
    Len(s) >= Len(suffix) /\ SubSeq(s, Len(s) - Len(suffix) + 1, Len(s)) = suffix

RECURSIVE str_split(_, _)
\* str.split(sep) for a one-character separator
str_split(s, sep) ==
    IF \E i \in 1..Len(s) : s[i] = sep
    THEN LET i == CHOOSE k \in 1..Len(s) : s[k] = sep /\ \A m \in 1..(k - 1) : s[m] # sep
         IN  <<SubSeq(s, 1, i - 1)>> \o str_split(SubSeq(s, i + 1, Len(s)), sep)
    ELSE <<s>>

RECURSIVE str_join(_, _)
\* sep.join(parts)
str_join(sep, parts) ==
    IF parts = <<>> THEN <<>>
    ELSE IF Len(parts) = 1 THEN parts[1]
    ELSE parts[1] \o sep \o str_join(sep, Tail(parts))

RECURSIVE str_replace(_, _, _)
\* str.replace(old, new) for a one-character old
str_replace(s, old, new) ==
    IF s = <<>> THEN <<>>
    ELSE (IF Head(s) = old THEN new ELSE <<Head(s)>>) \o str_replace(Tail(s), old, new)

RECURSIVE int_of(_, _)
\* int(x) of a string of decimal digits, most significant first
int_of(x, acc) ==
    IF x = <<>> THEN acc ELSE int_of(Tail(x), acc * 10 + DigitVal(Head(x)))

-----------------------------------------------------------------------------
(* Patterns *)

RECURSIVE DigitsEnd(_, _)
\* \d+ from position i: the last position of the run of digits (i - 1: none)
DigitsEnd(s, i) ==
    IF i <= Len(s) /\ IsDigit(s[i]) THEN DigitsEnd(s, i + 1) ELSE i - 1

RECURSIVE CodeEnd(_, _)
\* (?:\.\d+)* after a match that ends at j: the last position of the code
CodeEnd(s, j) ==
    IF j + 1 <= Len(s) /\ s[j + 1] = "." /\ DigitsEnd(s, j + 2) >= j + 2
    THEN CodeEnd(s, DigitsEnd(s, j + 2))
    ELSE j

\* the last position of the longest prefix \d+(?:\.\d+)* of s, 0 if none
CodePrefixEnd(s) ==
    IF DigitsEnd(s, 1) >= 1 THEN CodeEnd(s, DigitsEnd(s, 1)) ELSE 0

\* NUMERIC_HEADER_RX.match(s) is not None.  Only the longest code prefix can
\* be followed by \s: a shorter one is followed by a digit or by a dot.  The
\* text holds no line break, so .*$ takes the rest of it.
NUMERIC_HEADER_RX(s) ==
    /\ CodePrefixEnd(s) >= 1
    /\ CodePrefixEnd(s) < Len(s)
    /\ s[CodePrefixEnd(s) + 1] \in WhiteSpace

\* NUMERIC_HEADER_RX.match(s).group("code")
GroupCode(s) == SubSeq(s, 1, CodePrefixEnd(s))

\* NUMERIC_HEADER_RX.match(s).group("title"): what follows the greedy \s+
GroupTitle(s) == str_lstrip(SubSeq(s, CodePrefixEnd(s) + 1, Len(s)), WhiteSpace)

\* TOC_TITLE_RX.match(s) is not None (IGNORECASE)
TOC_TITLE_RX(s) == str_lower(s) = <<"t", "a", "b", "l", "e", " ", "o", "f", " ", "c", "o", "n", "t", "e", "n", "t", "s">>

RECURSIVE TrailingDigitsStart(_, _)
\* \d+$ : the first position of the run of digits that ends s[1..i]
TrailingDigitsStart(s, i) ==
    IF i >= 1 /\ IsDigit(s[i]) THEN TrailingDigitsStart(s, i - 1) ELSE i + 1

\* TOC_DOT_LEADER_RX.search(s) is not None:  \.\.\.+\s*\d+$
TOC_DOT_LEADER_RX(s) ==
    LET d    == TrailingDigitsStart(s, Len(s))
        head == str_rstrip(SubSeq(s, 1, d - 1), WhiteSpace)
    IN  d <= Len(s) /\ str_endswith(head, <<".", ".", ".">>)

\* TRAILING_PAGE_NUM_RX.search(s) is not None:  \s+\d+$
TRAILING_PAGE_NUM_RX(s) ==
    LET d == TrailingDigitsStart(s, Len(s))
    IN  d <= Len(s) /\ d >= 2 /\ s[d - 1] \in WhiteSpace

\* PAGE_FOOTER_RX.match(s) is not None:  ^Page\s+\d+\s*$ (IGNORECASE)
PAGE_FOOTER_RX(s) ==
    LET t    == str_rstrip(s, WhiteSpace)
        d    == TrailingDigitsStart(t, Len(t))
        head == SubSeq(t, 1, d - 1)
    IN  /\ d <= Len(t)
        /\ str_startswith(str_lower(head), <<"p", "a", "g", "e">>)
        /\ Len(head) > Len(<<"p", "a", "g", "e">>)
        /\ str_strip(SubSeq(head, Len(<<"p", "a", "g", "e">>) + 1, Len(head))) = <<>>

\* re.search(r"\((?:Automated|Manual)\)\s*$", s) is not None
STATUS_TAG_RX(s) ==
    LET t == str_rstrip(s, WhiteSpace)
    IN  str_endswith(t, <<"(", "A", "u", "t", "o", "m", "a", "t", "e", "d", ")">>) \/ str_endswith(t, <<"(", "M", "a", "n", "u", "a", "l", ")">>)

SECTION_NAMES ==
    { <<"D", "e", "s", "c", "r", "i", "p", "t", "i", "o", "n">>, <<"R", "a", "t", "i", "o", "n", "a", "l", "e">>, <<"I", "m", "p", "a", "c", "t">>, <<"A", "u", "d", "i", "t">>, <<"D", "e", "f", "a", "u", "l", "t", " ", "V", "a", "l", "u", "e">>,
      <<"R", "e", "m", "e", "d", "i", "a", "t", "i", "o", "n">>, <<"R", "e", "f", "e", "r", "e", "n", "c", "e", "s">>, <<"P", "r", "o", "f", "i", "l", "e", " ", "A", "p", "p", "l", "i", "c", "a", "b", "i", "l", "i", "t", "y">>, <<"C", "I", "S", " ", "C", "o", "n", "t", "r", "o", "l", "s">> }

TABLE_HEADER_STRINGS ==
    { <<"c", "o", "n", "t", "r", "o", "l", " ", "r", "e", "f", "e", "r", "e", "n", "c", "e", " ", "i", "d">>, <<"c", "o", "n", "t", "r", "o", "l", " ", "n", "a", "m", "e", " ", "&", " ", "d", "e", "s", "c", "r", "i", "p", "t", "i", "o", "n">>,
      <<"d", "e", "s", "c", "r", "i", "p", "t", "i", "o", "n">>, <<"r", "e", "m", "e", "d", "i", "a", "t", "i", "o", "n">> }

-----------------------------------------------------------------------------
(* Helpers *)

RECURSIVE SubBlankRuns(_)
\* re.sub(r"[ \t]+", " ", s)
SubBlankRuns(s) ==
    IF s = <<>> THEN <<>>
    ELSE IF Head(s) \in BlankChars
         THEN <<" ">> \o SubBlankRuns(str_lstrip(Tail(s), BlankChars))
         ELSE <<Head(s)>> \o SubBlankRuns(Tail(s))

collapse_spaces(s) == str_strip(SubBlankRuns(s))

RECURSIVE Dehyphenate(_)
\* re.sub(r"(\w)-\n(\w)", r"\1\2", text): matches left to right, not overlapping
Dehyphenate(text) ==
    IF Len(text) < 4 THEN text
    ELSE IF IsWordChar(text[1]) /\ text[2] = "-" /\ text[3] = "\n" /\ IsWordChar(text[4])
         THEN <<text[1], text[4]>> \o Dehyphenate(SubSeq(text, 5, Len(text)))
         ELSE <<Head(text)>> \o Dehyphenate(Tail(text))

normalize_text(text) ==
    Dehyphenate(str_replace(str_replace(text, "NBSP", <<" ">>), "\r", <<>>))

is_section_header(line) ==
    LET s == str_rstrip(str_strip(line), {":"})
    IN  \E name \in SECTION_NAMES : str_lower(s) = str_lower(name)

is_toc_like(line) ==
    \/ TOC_DOT_LEADER_RX(line)
    \/ PAGE_FOOTER_RX(line)
    \/ (TRAILING_PAGE_NUM_RX(line) /\ NUMERIC_HEADER_RX(line))

is_table_header_line(line) == str_lower(str_strip(line)) \in TABLE_HEADER_STRINGS

is_url_footnote(line) ==
    /\ NUMERIC_HEADER_RX(line)
    /\ LET title == str_lstrip(str_lstrip(str_strip(GroupTitle(line)), {"."}), WhiteSpace)
       IN  \/ str_startswith(str_lower(title), <<"h", "t", "t", "p", ":", "/", "/">>)
           \/ str_startswith(str_lower(title), <<"h", "t", "t", "p", "s", ":", "/", "/">>)

\* the test of lines 125-129: the raw line ends the narrative buffer
IsBreakingLine(line) ==
    \/ NUMERIC_HEADER_RX(line)
    \/ is_section_header(line)
    \/ TOC_TITLE_RX(str_strip(line))
    \/ is_toc_like(line)
    \/ PAGE_FOOTER_RX(line)
    \/ is_url_footnote(line)
    \/ is_table_header_line(line)

\* DroppedOnBreak that forgets the URL footnotes
DroppedOnBreakKeepsUrl(line) == is_table_header_line(line) \/ TOC_TITLE_RX(line)

\* the test of line 134: a breaking line that is not appended
DroppedOnBreak(line) ==
    is_url_footnote(line) \/ is_table_header_line(line) \/ TOC_TITLE_RX(line)

\* the test of the final scrub, line 145
FinalScrub(ln) == TOC_TITLE_RX(ln) \/ is_toc_like(ln) \/ is_table_header_line(ln)

\* lines.append(collapse_spaces(buf)) under "if buf:"
Flush(out, buf) == IF buf # <<>> THEN Append(out, collapse_spaces(buf)) ELSE out

RECURSIVE TextToLinesLoop(_, _, _, _)
\* the loop of text_to_lines from raw line i on, with the buffer and the lines so far
TextToLinesLoop(raws, i, buf, out) ==
    IF i > Len(raws) THEN Flush(out, buf)
    ELSE LET line == str_rstrip(raws[i], WhiteSpace)
         IN  IF str_strip(line) = <<>>
             THEN TextToLinesLoop(raws, i + 1, <<>>, Flush(out, buf))
             ELSE IF IsBreakingLine(line)
             THEN TextToLinesLoop(raws, i + 1, <<>>,
                      IF DroppedOnBreak(line) THEN Flush(out, buf)
                      ELSE Append(Flush(out, buf), collapse_spaces(line)))
             ELSE TextToLinesLoop(raws, i + 1,
                      IF buf # <<>>
                      THEN buf \o (IF str_endswith(buf, <<" ">>) THEN <<>> ELSE <<" ">>)
                               \o str_strip(line)
                      ELSE str_strip(line),
                      out)

text_to_lines(text) ==
    SelectSeq(TextToLinesLoop(str_split(text, "\n"), 1, <<>>, <<>>),
              LAMBDA ln : ~FinalScrub(ln))

RECURSIVE TupleLess(_, _)
\* Python's order of tuples of int: a < b
TupleLess(a, b) ==
    IF a = <<>> THEN b # <<>>
    ELSE IF b = <<>> THEN FALSE
    ELSE IF Head(a) # Head(b) THEN Head(a) < Head(b)
    ELSE TupleLess(Tail(a), Tail(b))

\* dotted_key that compares the codes as text, character by character
dotted_key_text(code) ==
    [i \in 1..Len(code) |-> IF code[i] = "." THEN -1 ELSE DigitVal(code[i])]

dotted_key(code) ==
    LET parts == str_split(code, ".")
    IN  [i \in 1..Len(parts) |-> int_of(parts[i], 0)]

RECURSIVE InsertByKey(_, _, _)
\* x put into the key-sorted s after every element whose key is not greater
InsertByKey(s, x, key) ==
    IF s = <<>> THEN <<x>>
    ELSE IF TupleLess(key[x], key[Head(s)]) THEN <<x>> \o s
    ELSE <<Head(s)>> \o InsertByKey(Tail(s), x, key)

RECURSIVE sorted(_, _)
\* sorted(s, key=...): stable; key is the key function on the elements of s
sorted(s, key) ==
    IF s = <<>> THEN <<>>
    ELSE InsertByKey(sorted(SubSeq(s, 1, Len(s) - 1), key), s[Len(s)], key)

-----------------------------------------------------------------------------
(* Parsing *)

\* lines[j], j counted from 0
At(ls, j) == ls[j + 1]

Anchor(code, title, start, end) ==
    [code |-> code, title |-> title, start |-> start, end |-> end]

Control(cid, title, start, end) ==
    [cid |-> cid, title |-> title, start |-> start, end |-> end]

StructHeader(code, title, start, end) ==
    [code |-> code, title |-> title, start |-> start, end |-> end]

RECURSIVE RawIdxs(_, _)
\* raw_idxs: the indices from i on, ascending, of the numeric headers that are
\* neither TOC-like nor URL footnotes
RawIdxs(ls, i) ==
    IF i >= Len(ls) THEN <<>>
    ELSE (IF NUMERIC_HEADER_RX(At(ls, i)) /\ ~is_toc_like(At(ls, i)) /\ ~is_url_footnote(At(ls, i))
          THEN <<i>> ELSE <<>>) \o RawIdxs(ls, i + 1)

RECURSIVE FirstPerCode(_, _, _)
\* the loop of lines 180-184: keep i unless its code is in seen
FirstPerCode(ls, raw_idxs, seen) ==
    IF raw_idxs = <<>> THEN <<>>
    ELSE LET i    == Head(raw_idxs)
             code == GroupCode(At(ls, i))
         IN  IF code \notin seen
             THEN <<i>> \o FirstPerCode(ls, Tail(raw_idxs), seen \cup {code})
             ELSE FirstPerCode(ls, Tail(raw_idxs), seen)

RECURSIVE SortInts(_)
\* list.sort() of a list of int
SortInts(s) ==
    IF s = <<>> THEN <<>>
    ELSE LET m == CHOOSE k \in 1..Len(s) : \A n \in 1..Len(s) : s[k] <= s[n]
         IN  <<s[m]>> \o SortInts(SubSeq(s, 1, m - 1) \o SubSeq(s, m + 1, Len(s)))

RECURSIVE LastPerCode(_, _)
\* keep i unless its code comes again later
LastPerCode(ls, raw_idxs) ==
    IF raw_idxs = <<>> THEN <<>>
    ELSE LET i    == Head(raw_idxs)
             rest == Tail(raw_idxs)
         IN  (IF \E k \in 1..Len(rest) : GroupCode(At(ls, rest[k])) = GroupCode(At(ls, i))
              THEN <<>> ELSE <<i>>) \o LastPerCode(ls, rest)

\* gather_anchors that keeps the last occurrence of a code
gather_anchors_keep_last(ls) ==
    LET idxs == SortInts(LastPerCode(ls, RawIdxs(ls, 0)))
    IN  [p \in 1..Len(idxs) |->
            Anchor(GroupCode(At(ls, idxs[p])),
                   str_strip(GroupTitle(At(ls, idxs[p]))),
                   idxs[p],
                   IF p + 1 <= Len(idxs) THEN idxs[p + 1] ELSE Len(ls))]

gather_anchors(ls) ==
    LET idxs == SortInts(FirstPerCode(ls, RawIdxs(ls, 0), {}))
    IN  [p \in 1..Len(idxs) |->
            Anchor(GroupCode(At(ls, idxs[p])),
                   str_strip(GroupTitle(At(ls, idxs[p]))),
                   idxs[p],
                   IF p + 1 <= Len(idxs) THEN idxs[p + 1] ELSE Len(ls))]

\* the test that ends a header block, an intro and a section body
IsStopLine(ln) ==
    \/ NUMERIC_HEADER_RX(ln)
    \/ is_section_header(ln)
    \/ is_toc_like(ln)
    \/ is_table_header_line(ln)
    \/ is_url_footnote(ln)

RECURSIVE HeaderBlockParts(_, _, _, _, _)
\* the while loop of header_block_text: the lines taken from j on
HeaderBlockParts(a, ls, span, j, taken) ==
    IF j < a.end /\ taken < span /\ ~IsStopLine(At(ls, j))
    THEN <<At(ls, j)>> \o HeaderBlockParts(a, ls, span, j + 1, taken + 1)
    ELSE <<>>

\* header_block_text that takes one line fewer than span
header_block_text_short(a, ls, span) ==
    collapse_spaces(str_join(<<" ">>,
        <<At(ls, a.start)>> \o HeaderBlockParts(a, ls, span - 1, a.start + 1, 0)))

header_block_text(a, ls, span) ==
    collapse_spaces(str_join(<<" ">>,
        <<At(ls, a.start)>> \o HeaderBlockParts(a, ls, span, a.start + 1, 0)))

RECURSIVE DescriptionBeforeNextHeader(_, _, _)
\* the fallback loop of is_control_anchor, from line j on
DescriptionBeforeNextHeader(a, ls, j) ==
    IF j >= a.end THEN FALSE
    ELSE IF NUMERIC_HEADER_RX(At(ls, j)) THEN FALSE
    ELSE IF /\ is_section_header(At(ls, j))
            /\ str_lower(str_rstrip(str_strip(At(ls, j)), {":"})) = <<"d", "e", "s", "c", "r", "i", "p", "t", "i", "o", "n">>
         THEN TRUE
    ELSE DescriptionBeforeNextHeader(a, ls, j + 1)

\* span=3 of the calls of header_block_text
Span == 3

is_control_anchor(a, ls) ==
    \/ STATUS_TAG_RX(header_block_text(a, ls, Span))
    \/ DescriptionBeforeNextHeader(a, ls, a.start + 1)

\* dict.setdefault(key, value) on a dict kept as the list of its values, in
\* insertion order; field names the attribute of a value that is its key
SetDefault(d, field, key, value) ==
    IF \E i \in 1..Len(d) : d[i][field] = key THEN d ELSE Append(d, value)

RECURSIVE ClassifyLoop(_, _, _, _, _)
\* the loop of classify from anchor p on: <<controls, structs>>
ClassifyLoop(as, ls, p, cs, ss) ==
    IF p > Len(as) THEN <<cs, ss>>
    ELSE LET a == as[p]
         IN  IF is_control_anchor(a, ls)
             THEN ClassifyLoop(as, ls, p + 1,
                      SetDefault(cs, "cid", a.code,
                          Control(a.code,
                                  str_strip(GroupTitle(header_block_text(a, ls, Span))),
                                  a.start, a.end)),
                      ss)
             ELSE ClassifyLoop(as, ls, p + 1, cs,
                      SetDefault(ss, "code", a.code,
                          StructHeader(a.code, a.title, a.start, a.end)))

\* classify that registers every anchor as a section, the controls too
classify_without_else(as, ls) ==
    << ClassifyLoop(as, ls, 1, <<>>, <<>>)[1],
       [p \in 1..Len(as) |-> StructHeader(as[p].code, as[p].title, as[p].start, as[p].end)] >>

classify(as, ls) == ClassifyLoop(as, ls, 1, <<>>, <<>>)

RECURSIVE TakeUntilStop(_, _, _)
\* the lines of ls from j (counted from 0) up to the first stop line or to end
TakeUntilStop(ls, j, end) ==
    IF j < end /\ ~IsStopLine(At(ls, j))
    THEN <<At(ls, j)>> \o TakeUntilStop(ls, j + 1, end)
    ELSE <<>>

\* extract_intro_for_struct that starts at the header line itself
extract_intro_from_header(s, ls) ==
    str_strip(str_join(<<"\n">>, <<At(ls, s.start)>> \o TakeUntilStop(ls, s.start + 1, s.end)))

extract_intro_for_struct(s, ls) ==
    str_strip(str_join(<<"\n">>, TakeUntilStop(ls, s.start + 1, s.end)))

\* ln.strip().rstrip(":").lower() == section_name.lower()
IsSectionLine(ln, section_name) ==
    str_lower(str_rstrip(str_strip(ln), {":"})) = str_lower(section_name)

RECURSIVE TakeUntilSection(_, _, _)
\* the lines of ls from j up to the first named section header or to end
TakeUntilSection(ls, j, end) ==
    IF j < end /\ ~is_section_header(At(ls, j))
    THEN <<At(ls, j)>> \o TakeUntilSection(ls, j + 1, end)
    ELSE <<>>

\* extract_section whose body stops at a named section header only
extract_section_to_next_section(block, section_name) ==
    IF \E i \in 0..(Len(block) - 1) : IsSectionLine(At(block, i), section_name)
    THEN LET idx == CHOOSE i \in 0..(Len(block) - 1) :
                        /\ IsSectionLine(At(block, i), section_name)
                        /\ \A k \in 0..(i - 1) : ~IsSectionLine(At(block, k), section_name)
         IN  str_strip(str_join(<<"\n">>, TakeUntilSection(block, idx + 1, Len(block))))
    ELSE <<>>

extract_section(block, section_name) ==
    IF \E i \in 0..(Len(block) - 1) : IsSectionLine(At(block, i), section_name)
    THEN LET idx == CHOOSE i \in 0..(Len(block) - 1) :
                        /\ IsSectionLine(At(block, i), section_name)
                        /\ \A k \in 0..(i - 1) : ~IsSectionLine(At(block, k), section_name)
         IN  str_strip(str_join(<<"\n">>, TakeUntilStop(block, idx + 1, Len(block))))
    ELSE <<>>

\* Python's None
None == <<>>

RECURSIVE LongestPrefixFrom(_, _, _)
\* the for loop of longest_structural_parent from L down to 1
LongestPrefixFrom(parts, L, struct_map) ==
    IF L < 1 THEN None
    ELSE IF str_join(<<".">>, SubSeq(parts, 1, L)) \in DOMAIN struct_map
         THEN str_join(<<".">>, SubSeq(parts, 1, L))
    ELSE LongestPrefixFrom(parts, L - 1, struct_map)

RECURSIVE ShortestPrefixFrom(_, _, _)
\* the loop run from the shortest prefix up
ShortestPrefixFrom(parts, L, struct_map) ==
    IF L > Len(parts) - 1 THEN None
    ELSE IF str_join(<<".">>, SubSeq(parts, 1, L)) \in DOMAIN struct_map
         THEN str_join(<<".">>, SubSeq(parts, 1, L))
    ELSE ShortestPrefixFrom(parts, L + 1, struct_map)

\* longest_structural_parent that returns the shortest matching prefix
shortest_structural_parent(code, struct_map) ==
    LET parts == str_split(code, ".")
        pref  == ShortestPrefixFrom(parts, 1, struct_map)
    IN  IF pref # None THEN pref
        ELSE IF parts[1] \in DOMAIN struct_map THEN parts[1]
        ELSE None

longest_structural_parent(code, struct_map) ==
    LET parts == str_split(code, ".")
        pref  == LongestPrefixFrom(parts, Len(parts) - 1, struct_map)
    IN  IF pref # None THEN pref
        ELSE IF parts[1] \in DOMAIN struct_map THEN parts[1]
        ELSE None

\* lines[start:end]
Slice(ls, start, end) == SubSeq(ls, start + 1, end)

-----------------------------------------------------------------------------
(* Word export *)

\* {s.code: s for s in structs}
StructMap(ss) ==
    [code \in {ss[i].code : i \in 1..Len(ss)} |->
        ss[CHOOSE i \in 1..Len(ss) :
               ss[i].code = code /\ \A k \in (i + 1)..Len(ss) : ss[k].code # code]]

RECURSIVE PlaceControls(_, _, _, _, _)
\* the loop of lines 320-325 from control p on: the buckets and the orphans
PlaceControls(cs, p, struct_map, bs, os) ==
    IF p > Len(cs) THEN [buckets |-> bs, orphans |-> os]
    ELSE LET parent == longest_structural_parent(cs[p].cid, struct_map)
         IN  IF parent # None
             THEN PlaceControls(cs, p + 1, struct_map,
                      [bs EXCEPT ![parent] = Append(@, cs[p])], os)
             ELSE PlaceControls(cs, p + 1, struct_map, bs, Append(os, cs[p]))

\* buckets and orphans of write_word
Place(cs, ss) ==
    PlaceControls(cs, 1, StructMap(ss), [code \in DOMAIN StructMap(ss) |-> <<>>], <<>>)

\* the deepest heading level of line 340
MaxHeadingLevel == 5

Min(a, b) == IF a <= b THEN a ELSE b

\* the six edges set_table_borders draws
BorderEdges == {"top", "left", "bottom", "right", "insideH", "insideV"}

\* doc.add_heading(text, level)
Heading(text, level) ==
    [kind |-> "heading", text |-> text, level |-> level, rows |-> <<>>, borders |-> {}]

\* doc.add_paragraph(text)
Paragraph(text) ==
    [kind |-> "paragraph", text |-> text, level |-> 0, rows |-> <<>>, borders |-> {}]

\* the row of one control: its id, its title and its two extracted sections
ControlRow(c, ls) ==
    << c.cid, c.title,
       extract_section(Slice(ls, c.start, c.end), <<"D", "e", "s", "c", "r", "i", "p", "t", "i", "o", "n">>),
       extract_section(Slice(ls, c.start, c.end), <<"R", "e", "m", "e", "d", "i", "a", "t", "i", "o", "n">>) >>

\* the table of the controls cs: the caption row, one row per control, borders
Table(cs, ls) ==
    [kind    |-> "table",
     text    |-> <<>>,
     level   |-> 0,
     rows    |-> << << <<"C", "o", "n", "t", "r", "o", "l", " ", "R", "e", "f", "e", "r", "e", "n", "c", "e", " ", "I", "D">>, <<"C", "o", "n", "t", "r", "o", "l", " ", "N", "a", "m", "e", " ", "&", " ", "D", "e", "s", "c", "r", "i", "p", "t", "i", "o", "n">>,
                      <<"D", "e", "s", "c", "r", "i", "p", "t", "i", "o", "n">>, <<"R", "e", "m", "e", "d", "i", "a", "t", "i", "o", "n">> >> >>
                 \o [i \in 1..Len(cs) |-> ControlRow(cs[i], ls)],
     borders |-> BorderEdges]

\* sorted(cs, key=lambda c: dotted_key(c.cid))
SortedControls(cs) ==
    sorted(cs, [c \in {cs[i] : i \in 1..Len(cs)} |-> dotted_key(c.cid)])

\* sorted(structs, key=lambda s: dotted_key(s.code))
SortedStructs(ss) ==
    sorted(ss, [x \in {ss[i] : i \in 1..Len(ss)} |-> dotted_key(x.code)])

\* SkipStruct that looks at the intro only
SkipStructWithoutIntro(controls_here, intro) == intro = <<>>

\* the test of line 338: the section is not rendered
SkipStruct(controls_here, intro) == controls_here = <<>> /\ intro = <<>>

RECURSIVE RenderStructs(_, _, _, _, _)
\* the loop of lines 335-361 from section p of ordered_structs on
RenderStructs(ordered_structs, p, bs, ls, d) ==
    IF p > Len(ordered_structs) THEN d
    ELSE LET s             == ordered_structs[p]
             controls_here == SortedControls(IF s.code \in DOMAIN bs THEN bs[s.code] ELSE <<>>)
             intro         == extract_intro_for_struct(s, ls)
         IN  IF SkipStruct(controls_here, intro)
             THEN RenderStructs(ordered_structs, p + 1, bs, ls, d)
             ELSE RenderStructs(ordered_structs, p + 1, bs, ls,
                      d \o << Heading(s.code \o <<" ">> \o s.title,
                                      Min(Len(str_split(s.code, ".")), MaxHeadingLevel)) >>
                        \o (IF intro # <<>> THEN << Paragraph(intro) >> ELSE <<>>)
                        \o (IF controls_here # <<>>
                            THEN << Table(controls_here, ls), Paragraph(<<>>) >>
                            ELSE <<>>))

\* lines 364-381
RenderOrphans(os, ls) ==
    IF os # <<>>
    THEN << Heading(<<"U", "n", "p", "l", "a", "c", "e", "d", " ", "C", "o", "n", "t", "r", "o", "l", "s">>, 1), Table(SortedControls(os), ls) >>
    ELSE <<>>

\* the document write_word builds
write_word(cs, ss, ls) ==
    RenderStructs(SortedStructs(ss), 1, Place(cs, ss).buckets, ls, <<>>)
        \o RenderOrphans(Place(cs, ss).orphans, ls)

-----------------------------------------------------------------------------
(* main: one action per statement *)

\* lines 393-395: the PDF is missing
PdfNotFound ==
    /\ pc = "check_pdf"
    /\ ~pdf_exists
    /\ pc' = "exit"
    /\ exit_msg' = "PDF not found"
    /\ UNCHANGED <<pdf_exists, pdf_text, raw, lines, anchors, controls, structs,
                   buckets, orphans, doc, extract_called, dir_created, saved, printed,
                   fn_args, fn_ret, fn_done>>

\* line 397: extract_text returns the text of the PDF
ExtractText ==
    /\ pc = "check_pdf"
    /\ pdf_exists
    /\ raw' = pdf_text
    /\ extract_called' = TRUE
    /\ pc' = "normalize"
    /\ UNCHANGED <<pdf_exists, pdf_text, lines, anchors, controls, structs,
                   buckets, orphans, doc, dir_created, saved, printed, exit_msg,
                   fn_args, fn_ret, fn_done>>

\* line 397: extract_text raises, main does not catch it
ExtractTextFails ==
    /\ pc = "check_pdf"
    /\ pdf_exists
    /\ extract_called' = TRUE
    /\ pc' = "exit"
    /\ exit_msg' = "uncaught exception"
    /\ UNCHANGED <<pdf_exists, pdf_text, raw, lines, anchors, controls, structs,
                   buckets, orphans, doc, dir_created, saved, printed,
                   fn_args, fn_ret, fn_done>>

\* line 398
NormalizeText ==
    /\ pc = "normalize"
    /\ raw' = normalize_text(raw)
    /\ pc' = "to_lines"
    /\ UNCHANGED <<pdf_exists, pdf_text, lines, anchors, controls, structs,
                   buckets, orphans, doc, extract_called, dir_created, saved, printed,
                   exit_msg, fn_args, fn_ret, fn_done>>

\* line 399
TextToLines ==
    /\ pc = "to_lines"
    /\ lines' = text_to_lines(raw)
    /\ pc' = "gather"
    /\ UNCHANGED <<pdf_exists, pdf_text, raw, anchors, controls, structs,
                   buckets, orphans, doc, extract_called, dir_created, saved, printed,
                   exit_msg, fn_args, fn_ret, fn_done>>

\* line 401
GatherAnchors ==
    /\ pc = "gather"
    /\ anchors' = gather_anchors(lines)
    /\ pc' = "classify"
    /\ UNCHANGED <<pdf_exists, pdf_text, raw, lines, controls, structs,
                   buckets, orphans, doc, extract_called, dir_created, saved, printed,
                   exit_msg, fn_args, fn_ret, fn_done>>

\* line 402
Classify ==
    /\ pc = "classify"
    /\ controls' = classify(anchors, lines)[1]
    /\ structs' = classify(anchors, lines)[2]
    /\ pc' = "check_controls"
    /\ UNCHANGED <<pdf_exists, pdf_text, raw, lines, anchors,
                   buckets, orphans, doc, extract_called, dir_created, saved, printed,
                   exit_msg, fn_args, fn_ret, fn_done>>

\* lines 404-405
NoControls ==
    /\ pc = "check_controls"
    /\ controls = <<>>
    /\ pc' = "exit"
    /\ exit_msg' = "No controls detected"
    /\ UNCHANGED <<pdf_exists, pdf_text, raw, lines, anchors, controls, structs,
                   buckets, orphans, doc, extract_called, dir_created, saved, printed,
                   fn_args, fn_ret, fn_done>>

\* MakeOutDir reached without the test of line 404
MakeOutDirUnchecked ==
    /\ pc = "check_controls"
    /\ dir_created' = TRUE
    /\ pc' = "write"
    /\ UNCHANGED <<pdf_exists, pdf_text, raw, lines, anchors, controls, structs,
                   buckets, orphans, doc, extract_called, saved, printed, exit_msg,
                   fn_args, fn_ret, fn_done>>

\* lines 407-408, reached when line 404 found controls
MakeOutDir ==
    /\ pc = "check_controls"
    /\ controls # <<>>
    /\ dir_created' = TRUE
    /\ pc' = "write"
    /\ UNCHANGED <<pdf_exists, pdf_text, raw, lines, anchors, controls, structs,
                   buckets, orphans, doc, extract_called, saved, printed, exit_msg,
                   fn_args, fn_ret, fn_done>>

\* line 410: write_word builds the document and doc.save writes it
WriteWord ==
    /\ pc = "write"
    /\ buckets' = Place(controls, structs).buckets
    /\ orphans' = Place(controls, structs).orphans
    /\ doc' = write_word(controls, structs, lines)
    /\ saved' = TRUE
    /\ pc' = "print"
    /\ UNCHANGED <<pdf_exists, pdf_text, raw, lines, anchors, controls, structs,
                   extract_called, dir_created, printed, exit_msg,
                   fn_args, fn_ret, fn_done>>

\* line 410: doc.save raises, main does not catch it
WriteWordFails ==
    /\ pc = "write"
    /\ buckets' = Place(controls, structs).buckets
    /\ orphans' = Place(controls, structs).orphans
    /\ doc' = write_word(controls, structs, lines)
    /\ pc' = "exit"
    /\ exit_msg' = "uncaught exception"
    /\ UNCHANGED <<pdf_exists, pdf_text, raw, lines, anchors, controls, structs,
                   extract_called, dir_created, saved, printed,
                   fn_args, fn_ret, fn_done>>

\* line 411
PrintSaved ==
    /\ pc = "print"
    /\ printed' = TRUE
    /\ pc' = "done"
    /\ UNCHANGED <<pdf_exists, pdf_text, raw, lines, anchors, controls, structs,
                   buckets, orphans, doc, extract_called, dir_created, saved, exit_msg,
                   fn_args, fn_ret, fn_done>>

-----------------------------------------------------------------------------
(* Inputs *)

RECURSIVE SeqsUpTo(_, _)
\* the sequences of at most n elements of S
SeqsUpTo(S, n) ==
    IF n = 0 THEN {<<>>}
    ELSE SeqsUpTo(S, n - 1) \cup {Append(s, x) : s \in SeqsUpTo(S, n - 1), x \in S}

\* the most raw lines of an extracted text
MaxRaw == 3

\* raw lines of an extracted text: blank, narrative, a hyphen-wrapped word, a
\* control header, a section header, a table caption that is also a section
\* name, a URL footnote, a TOC entry, the TOC title
RawPool ==
    { <<>>, <<"x">>, <<"a", "-">>, <<"4", ".", "1", " ", "a", " ", "(", "M", "a", "n", "u", "a", "l", ")">>, <<"D", "e", "s", "c", "r", "i", "p", "t", "i", "o", "n", ":">>, <<"D", "e", "s", "c", "r", "i", "p", "t", "i", "o", "n">>,
      <<"1", " ", "h", "t", "t", "p", ":", "/", "/", "x">>, <<"4", ".", "1", " ", "a", " ", "7">>, <<"T", "a", "b", "l", "e", " ", "o", "f", " ", "C", "o", "n", "t", "e", "n", "t", "s">> }

RawTexts == {str_join(<<"\n">>, ls) : ls \in SeqsUpTo(RawPool, MaxRaw)}

\* the state in which main starts: the PDF exists, with some text, or does not
Init ==
    /\ pc = "check_pdf"
    /\ pdf_exists \in BOOLEAN
    /\ pdf_text \in (IF pdf_exists THEN RawTexts ELSE {<<>>})
    /\ raw = <<>>
    /\ lines = <<>>
    /\ anchors = <<>>
    /\ controls = <<>>
    /\ structs = <<>>
    /\ buckets = <<>>
    /\ orphans = <<>>
    /\ doc = <<>>
    /\ extract_called = FALSE
    /\ dir_created = FALSE
    /\ saved = FALSE
    /\ printed = FALSE
    /\ exit_msg = ""
    /\ fn_args = <<>>
    /\ fn_ret = <<>>
    /\ fn_done = FALSE

Next ==
    \/ PdfNotFound
    \/ ExtractText
    \/ ExtractTextFails
    \/ NormalizeText
    \/ TextToLines
    \/ GatherAnchors
    \/ Classify
    \/ NoControls
    \/ MakeOutDir
    \/ WriteWord
    \/ WriteWordFails
    \/ PrintSaved

Spec == Init /\ [][Next]_vars

-----------------------------------------------------------------------------
(* The parsing functions on given logical lines *)

\* the most logical lines of an input
MaxLines == 4

\* what Init leaves of the state of main when the pipeline starts from lines
FromLines(ls) ==
    /\ pc = "gather"
    /\ pdf_exists = TRUE
    /\ pdf_text = <<>>
    /\ raw = <<>>
    /\ lines = ls
    /\ anchors = <<>>
    /\ controls = <<>>
    /\ structs = <<>>
    /\ buckets = <<>>
    /\ orphans = <<>>
    /\ doc = <<>>
    /\ extract_called = TRUE
    /\ dir_created = FALSE
    /\ saved = FALSE
    /\ printed = FALSE
    /\ exit_msg = ""
    /\ fn_args = <<>>
    /\ fn_ret = <<>>
    /\ fn_done = FALSE

\* logical lines for the scanner and the classifier: two headers, narrative
\* with and without a status tag, a section header, a TOC entry, a URL footnote
ScanPool ==
    { <<"4", ".", "1", " ", "a">>, <<"4", ".", "9", " ", "b">>, <<"x">>, <<"y", " ", "(", "M", "a", "n", "u", "a", "l", ")">>, <<"D", "e", "s", "c", "r", "i", "p", "t", "i", "o", "n", ":">>, <<"4", ".", "1", " ", "a", " ", "7">>,
      <<"1", " ", "h", "t", "t", "p", ":", "/", "/", "x">> }

InitScan == \E ls \in SeqsUpTo(ScanPool, MaxLines) : FromLines(ls)

NextScan == GatherAnchors \/ Classify

\* gather_anchors and classify on every sequence of at most MaxLines lines
SpecScan == InitScan /\ [][NextScan]_vars

\* the scenario of the specification's testable properties
Scenario ==
    << <<"4", ".", "1", " ", "E", "n", "a", "b", "l", "e", " ", "l", "o", "g", "g", "i", "n", "g">>,
       <<"E", "n", "s", "u", "r", "e", " ", "l", "o", "g", "g", "i", "n", "g", " ", "i", "s", " ", "e", "n", "a", "b", "l", "e", "d", " ", "f", "o", "r", " ", "a", "l", "l", " ", "r", "e", "q", "u", "e", "s", "t", "s", ".">>,
       <<"4", ".", "1", ".", "1", " ", "C", "o", "n", "f", "i", "g", "u", "r", "e", " ", "l", "o", "g", " ", "l", "e", "v", "e", "l", " ", "(", "A", "u", "t", "o", "m", "a", "t", "e", "d", ")">>,
       <<"D", "e", "s", "c", "r", "i", "p", "t", "i", "o", "n", ":">>,
       <<"S", "e", "t", " ", "t", "h", "e", " ", "l", "e", "v", "e", "l", " ", "t", "o", " ", "I", "N", "F", "O", " ", "o", "r", " ", "h", "i", "g", "h", "e", "r", ".">>,
       <<"R", "e", "m", "e", "d", "i", "a", "t", "i", "o", "n", ":">>,
       <<"R", "u", "n", ":", " ", "s", "e", "t", "-", "l", "o", "g", "-", "l", "e", "v", "e", "l", " ", "I", "N", "F", "O">>,
       <<"4", ".", "2", " ", "D", "i", "s", "a", "b", "l", "e", " ", "d", "e", "b", "u", "g", " ", "m", "o", "d", "e">> >>

\* logical lines for the hierarchy: section headers, control headers at two
\* depths, narrative
LinePool ==
    { <<"4", " ", "a">>, <<"4", ".", "1", "0", " ", "a">>, <<"4", ".", "9", " ", "a">>, <<"4", ".", "1", "0", " ", "b", " ", "(", "M", "a", "n", "u", "a", "l", ")">>, <<"4", ".", "9", ".", "1", " ", "b", " ", "(", "M", "a", "n", "u", "a", "l", ")">>, <<"x">> }

InitLines == \E ls \in SeqsUpTo(LinePool, MaxLines) \cup {Scenario} : FromLines(ls)

NextLines ==
    \/ GatherAnchors
    \/ Classify
    \/ NoControls
    \/ MakeOutDir
    \/ WriteWord
    \/ WriteWordFails
    \/ PrintSaved

\* main from line 401 on, on every sequence of at most MaxLines lines and on
\* the scenario
SpecLines == InitLines /\ [][NextLines]_vars

-----------------------------------------------------------------------------
(* longest_structural_parent and extract_section on given arguments *)

\* what Init leaves of the state of main when one function is called alone
FunctionCall(args) ==
    /\ pc = "call"
    /\ pdf_exists = TRUE
    /\ pdf_text = <<>>
    /\ raw = <<>>
    /\ lines = <<>>
    /\ anchors = <<>>
    /\ controls = <<>>
    /\ structs = <<>>
    /\ buckets = <<>>
    /\ orphans = <<>>
    /\ doc = <<>>
    /\ extract_called = FALSE
    /\ dir_created = FALSE
    /\ saved = FALSE
    /\ printed = FALSE
    /\ exit_msg = ""
    /\ fn_args = args
    /\ fn_ret = <<>>
    /\ fn_done = FALSE

CodePool == { <<"4">>, <<"4", ".", "1">>, <<"4", ".", "1", "0">>, <<"4", ".", "1", ".", "2">>, <<"4", ".", "1", ".", "2", ".", "9">>, <<"7">> }

\* a control code and the struct_map of write_word: classify gives no code to
\* both a control and a section
InitParent ==
    \E code \in CodePool : \E codes \in SUBSET (CodePool \ {code}) :
        FunctionCall([code       |-> code,
                      struct_map |-> [c \in codes |-> StructHeader(c, <<"a">>, 0, 0)]])

CallLongestStructuralParent ==
    /\ pc = "call"
    /\ fn_ret' = longest_structural_parent(fn_args.code, fn_args.struct_map)
    /\ fn_done' = TRUE
    /\ pc' = "returned"
    /\ UNCHANGED <<pdf_exists, pdf_text, raw, lines, anchors, controls, structs,
                   buckets, orphans, doc, extract_called, dir_created, saved, printed,
                   exit_msg, fn_args>>

NextParent == CallLongestStructuralParent

SpecParent == InitParent /\ [][NextParent]_vars

\* the most lines of a block
MaxBlock == 4

BlockPool ==
    { <<"4", ".", "1", " ", "a">>, <<"D", "e", "s", "c", "r", "i", "p", "t", "i", "o", "n", ":">>, <<"R", "e", "m", "e", "d", "i", "a", "t", "i", "o", "n", ":">>, <<"r", "e", "m", "e", "d", "i", "a", "t", "i", "o", "n">>, <<"x">>, <<"y">> }

InitExtract ==
    \E block \in SeqsUpTo(BlockPool, MaxBlock) :
        \E section_name \in {<<"D", "e", "s", "c", "r", "i", "p", "t", "i", "o", "n">>, <<"R", "e", "m", "e", "d", "i", "a", "t", "i", "o", "n">>} :
            FunctionCall([block |-> block, section_name |-> section_name])

CallExtractSection ==
    /\ pc = "call"
    /\ fn_ret' = extract_section(fn_args.block, fn_args.section_name)
    /\ fn_done' = TRUE
    /\ pc' = "returned"
    /\ UNCHANGED <<pdf_exists, pdf_text, raw, lines, anchors, controls, structs,
                   buckets, orphans, doc, extract_called, dir_created, saved, printed,
                   exit_msg, fn_args>>

NextExtract == CallExtractSection

SpecExtract == InitExtract /\ [][NextExtract]_vars

-----------------------------------------------------------------------------
(* Properties *)

\* the codes of a list of anchors or sections, the ids of a list of controls
CodesOf(ss) == {ss[i].code : i \in 1..Len(ss)}

CidsOf(cs) == {cs[i].cid : i \in 1..Len(cs)}

\* line j of ls (counted from 0) is a numeric header that is neither a TOC
\* artifact nor a URL footnote
IsAnchorLine(ls, j) ==
    /\ NUMERIC_HEADER_RX(At(ls, j))
    /\ ~is_toc_like(At(ls, j))
    /\ ~is_url_footnote(At(ls, j))

\* the scanner has run
Scanned == pc \in {"classify", "check_controls"}

\* C2: the anchors are strictly increasing by start; no two share a code; the
\* anchor of a code starts at the first anchor line with that code, and every
\* anchor line's code has an anchor; the end of each anchor is the start of the
\* next, and the end of the last is the number of lines.  These fix the list as
\* a function of the lines, so scanning again gives the same list.
AnchorsWellFormed ==
    Scanned =>
        /\ \A i \in 1..(Len(anchors) - 1) :
              /\ anchors[i].start < anchors[i + 1].start
              /\ anchors[i].end = anchors[i + 1].start
        /\ anchors # <<>> => anchors[Len(anchors)].end = Len(lines)
        /\ \A i, k \in 1..Len(anchors) : i # k => anchors[i].code # anchors[k].code
        /\ \A i \in 1..Len(anchors) :
              /\ anchors[i].start \in 0..(Len(lines) - 1)
              /\ IsAnchorLine(lines, anchors[i].start)
              /\ GroupCode(At(lines, anchors[i].start)) = anchors[i].code
              /\ \A j \in 0..(anchors[i].start - 1) :
                    ~(IsAnchorLine(lines, j) /\ GroupCode(At(lines, j)) = anchors[i].code)
        /\ \A j \in 0..(Len(lines) - 1) :
              IsAnchorLine(lines, j) => GroupCode(At(lines, j)) \in CodesOf(anchors)

\* C2 witness: a code repeated on a later line, a TOC entry and a URL footnote
\* among the lines, and two anchors found
AnchorsWitness ==
    /\ Scanned
    /\ Len(anchors) = 2
    /\ \E j \in 0..(Len(lines) - 1) :
          /\ IsAnchorLine(lines, j)
          /\ \E i \in 1..Len(anchors) :
                anchors[i].code = GroupCode(At(lines, j)) /\ anchors[i].start < j
    /\ \E j \in 0..(Len(lines) - 1) :
          NUMERIC_HEADER_RX(At(lines, j)) /\ ~IsAnchorLine(lines, j)

\* C3: classify puts every anchor code into exactly one of its two outputs
ClassifyPartitions ==
    pc = "check_controls" =>
        /\ CidsOf(controls) \cap CodesOf(structs) = {}
        /\ CidsOf(controls) \cup CodesOf(structs) = CodesOf(anchors)
        /\ Len(controls) + Len(structs) = Len(anchors)

\* C3 witness: anchors of both kinds have been classified
ClassifyWitness ==
    /\ pc = "check_controls"
    /\ controls # <<>>
    /\ structs # <<>>

\* the header block of anchor a ends, with a status tag, on line a.start + k:
\* the k lines after the header are plain, and the block stops there
TagEndsBlockAt(a, k) ==
    /\ a.start + k < Len(lines)
    /\ \A m \in 1..k :
          LET ln == At(lines, a.start + m)
          IN  ~(\/ NUMERIC_HEADER_RX(ln) \/ is_section_header(ln) \/ is_toc_like(ln)
                \/ is_table_header_line(ln) \/ is_url_footnote(ln))
    /\ STATUS_TAG_RX(At(lines, a.start + k))
    /\ \/ k = 3
       \/ a.start + k + 1 >= Len(lines)
       \/ LET ln == At(lines, a.start + k + 1)
          IN  \/ NUMERIC_HEADER_RX(ln) \/ is_section_header(ln) \/ is_toc_like(ln)
              \/ is_table_header_line(ln) \/ is_url_footnote(ln)

\* C4: an anchor whose header block (its line and up to 3 plain lines after
\* it) ends with (Automated) or (Manual) is a Record, also when the tag is on
\* the last line of the lookahead, the 4th line of the block
TagWithinLookaheadIsRecord ==
    pc = "check_controls" =>
        \A i \in 1..Len(anchors) : \A k \in 0..3 :
            TagEndsBlockAt(anchors[i], k) => anchors[i].code \in CidsOf(controls)

\* C4 witness: a Record whose tag is on the 4th line of its block, with no
\* tag before it and no Description header in its range
TagOnFourthLineWitness ==
    /\ pc = "check_controls"
    /\ \E i \in 1..Len(anchors) :
          /\ TagEndsBlockAt(anchors[i], 3)
          /\ \A m \in 0..2 : ~STATUS_TAG_RX(At(lines, anchors[i].start + m))
          /\ \A j \in anchors[i].start..(anchors[i].end - 1) : ~is_section_header(At(lines, j))
          /\ anchors[i].code \in CidsOf(controls)

\* q is a proper dotted prefix of code: code is q, a dot, and more
IsProperDottedPrefix(q, code) == str_startswith(code, q \o <<".">>)

\* the section codes of struct_map that are proper dotted prefixes of code
StructuralAncestors(code, struct_map) ==
    {q \in DOMAIN struct_map : IsProperDottedPrefix(q, code)}

\* C5: longest_structural_parent returns the longest proper dotted prefix of
\* the record's code that is a section code, and None exactly when there is none
LongestPrefixPlacement ==
    (fn_done /\ "code" \in DOMAIN fn_args) =>
        LET anc == StructuralAncestors(fn_args.code, fn_args.struct_map)
        IN  /\ (fn_ret = None) <=> (anc = {})
            /\ anc # {} => /\ fn_ret \in anc
                           /\ \A q \in anc : Len(q) <= Len(fn_ret)

\* C5 witness: sections 4 and 4.1, record 4.1.2.9 (4.1.2 is missing): placed
\* under 4.1
LongestPrefixWitness ==
    /\ fn_done
    /\ "code" \in DOMAIN fn_args
    /\ fn_args.code = <<"4", ".", "1", ".", "2", ".", "9">>
    /\ DOMAIN fn_args.struct_map = {<<"4">>, <<"4", ".", "1">>}
    /\ fn_ret = <<"4", ".", "1">>

\* write_word has run and the document is saved
Written == pc \in {"print", "done"}

RECURSIVE CountIn(_, _)
\* how many elements of the list cs have the id cid
CountIn(cs, cid) ==
    IF cs = <<>> THEN 0
    ELSE (IF Head(cs).cid = cid THEN 1 ELSE 0) + CountIn(Tail(cs), cid)

RECURSIVE SumOver(_, _)
\* the sum of f over the set S
SumOver(f, S) ==
    IF S = {} THEN 0
    ELSE LET x == CHOOSE y \in S : TRUE IN f[x] + SumOver(f, S \ {x})

\* the data rows of the tables of the document, in order
RECURSIVE DataRows(_)
DataRows(d) ==
    IF d = <<>> THEN <<>>
    ELSE (IF Head(d).kind = "table" THEN Tail(Head(d).rows) ELSE <<>>) \o DataRows(Tail(d))

\* C6: every Record is in exactly one group, one section's bucket or the
\* unplaced set; a Record with no section code among its prefixes is in the
\* unplaced set, once; and every Record is exactly one row of the document
NoRecordDropped ==
    Written =>
        /\ DOMAIN buckets = CodesOf(structs)
        /\ \A i \in 1..Len(controls) :
              LET cid   == controls[i].cid
                  inB   == SumOver([code \in DOMAIN buckets |-> CountIn(buckets[code], cid)],
                                   DOMAIN buckets)
                  inO   == CountIn(orphans, cid)
                  rows  == DataRows(doc)
              IN  /\ inB + inO = 1
                  /\ StructuralAncestors(cid, buckets) = {} => inO = 1
                  /\ StructuralAncestors(cid, buckets) # {} => inB = 1
                  /\ Cardinality({r \in 1..Len(rows) : rows[r][1] = cid}) = 1
        /\ Len(DataRows(doc)) = Len(controls)

\* C6 witness: one Record in a section without intro text, one unplaced
NoRecordDroppedWitness ==
    /\ Written
    /\ orphans # <<>>
    /\ \E code \in DOMAIN buckets :
          /\ buckets[code] # <<>>
          /\ \E i \in 1..Len(structs) :
                structs[i].code = code /\ extract_intro_for_struct(structs[i], lines) = <<>>

\* the integer value of the decimal digits x
RECURSIVE Decimal(_)
Decimal(x) ==
    IF x = <<>> THEN 0 ELSE 10 * Decimal(SubSeq(x, 1, Len(x) - 1)) + DigitVal(x[Len(x)])

\* code a comes strictly before code b: at the first component where they
\* differ a's integer is smaller, or a is a proper prefix of b
CodeBefore(a, b) ==
    LET pa == str_split(a, ".")
        pb == str_split(b, ".")
    IN  \E i \in 1..(Len(pb)) :
            /\ \A k \in 1..(i - 1) : k <= Len(pa) /\ Decimal(pa[k]) = Decimal(pb[k])
            /\ \/ i = Len(pa) + 1
               \/ i <= Len(pa) /\ Decimal(pa[i]) < Decimal(pb[i])

\* no element of the list of codes comes strictly before an earlier one
Ascending(codes) ==
    \A i, k \in 1..Len(codes) : i < k => ~CodeBefore(codes[k], codes[i])

\* the codes of the section headings of the document, in order
RECURSIVE HeadingCodes(_)
HeadingCodes(d) ==
    IF d = <<>> THEN <<>>
    ELSE (IF Head(d).kind = "heading" /\ NUMERIC_HEADER_RX(Head(d).text)
          THEN <<GroupCode(Head(d).text)>> ELSE <<>>) \o HeadingCodes(Tail(d))

\* C7: codes are ordered by their integer components, 4.9 before 4.10 and 4
\* before 4.1; write_word emits the sections in ascending order, and the
\* Records of each table (a section's bucket, the unplaced set) in ascending order
OrderingLaw ==
    /\ CodeBefore(<<"4", ".", "9">>, <<"4", ".", "1", "0">>) /\ ~CodeBefore(<<"4", ".", "1", "0">>, <<"4", ".", "9">>)
    /\ CodeBefore(<<"4">>, <<"4", ".", "1">>) /\ ~CodeBefore(<<"4", ".", "1">>, <<"4">>)
    /\ Written =>
          /\ Ascending(HeadingCodes(doc))
          /\ \A e \in 1..Len(doc) :
                doc[e].kind = "table" =>
                    Ascending([r \in 1..(Len(doc[e].rows) - 1) |-> doc[e].rows[r + 1][1]])

\* C7 witness: section 4.10 comes before section 4.9 in the lines and after
\* it in the document
OrderingWitness ==
    /\ Written
    /\ \E i, k \in 1..Len(structs) :
          i < k /\ structs[i].code = <<"4", ".", "1", "0">> /\ structs[k].code = <<"4", ".", "9">>
    /\ \E i, k \in 1..Len(HeadingCodes(doc)) :
          i < k /\ HeadingCodes(doc)[i] = <<"4", ".", "9">> /\ HeadingCodes(doc)[k] = <<"4", ".", "1", "0">>

\* the outcome of the scenario with the given title of Record 4.1.1: sections
\* 4.1 and 4.2, one Record 4.1.1 with its Description and Remediation, placed
\* under 4.1, and the intro of 4.1
ScenarioOutcome(title) ==
    (lines = Scenario /\ Written) =>
        /\ Len(structs) = 2
        /\ CodesOf(structs) = {<<"4", ".", "1">>, <<"4", ".", "2">>}
        /\ controls = << Control(<<"4", ".", "1", ".", "1">>, title, 2, 7) >>
        /\ DataRows(doc) = << << <<"4", ".", "1", ".", "1">>, title,
                                 <<"S", "e", "t", " ", "t", "h", "e", " ", "l", "e", "v", "e", "l", " ", "t", "o", " ", "I", "N", "F", "O", " ", "o", "r", " ", "h", "i", "g", "h", "e", "r", ".">>,
                                 <<"R", "u", "n", ":", " ", "s", "e", "t", "-", "l", "o", "g", "-", "l", "e", "v", "e", "l", " ", "I", "N", "F", "O">> >> >>
        /\ buckets[<<"4", ".", "1">>] = controls
        /\ buckets[<<"4", ".", "2">>] = <<>>
        /\ orphans = <<>>
        /\ \E e \in 1..(Len(doc) - 1) :
              /\ doc[e] = Heading(<<"4", ".", "1", " ", "E", "n", "a", "b", "l", "e", " ", "l", "o", "g", "g", "i", "n", "g">>, 2)
              /\ doc[e + 1] = Paragraph(<<"E", "n", "s", "u", "r", "e", " ", "l", "o", "g", "g", "i", "n", "g", " ", "i", "s", " ", "e", "n", "a", "b", "l", "e", "d", " ", "f", "o", "r", " ", "a", "l", "l", " ", "r", "e", "q", "u", "e", "s", "t", "s", ".">>)

\* C1 as stated: the title of Record 4.1.1 is "Configure log level"
ScenarioAsStated == ScenarioOutcome(<<"C", "o", "n", "f", "i", "g", "u", "r", "e", " ", "l", "o", "g", " ", "l", "e", "v", "e", "l">>)

\* C1: the scenario's outcome, the title of Record 4.1.1 being the title
\* remainder of its header block, status tag included
ScenarioWithTagInTitle == ScenarioOutcome(<<"C", "o", "n", "f", "i", "g", "u", "r", "e", " ", "l", "o", "g", " ", "l", "e", "v", "e", "l", " ", "(", "A", "u", "t", "o", "m", "a", "t", "e", "d", ")">>)

\* C1 witness: the scenario has been written
ScenarioWitness ==
    /\ lines = Scenario
    /\ Written
    /\ Len(controls) = 1
    /\ Len(doc) = 4

\* one of the five kinds of line that end a section body
EndsBody(ln) ==
    \/ NUMERIC_HEADER_RX(ln)
    \/ is_section_header(ln)
    \/ is_toc_like(ln)
    \/ is_table_header_line(ln)
    \/ is_url_footnote(ln)

\* the least element of a non-empty set of integers
Least(S) == CHOOSE x \in S : \A y \in S : x <= y

\* the block of the round trip: Description:, two narrative lines, Remediation:
RoundTripBlock == << <<"D", "e", "s", "c", "r", "i", "p", "t", "i", "o", "n", ":">>, <<"x">>, <<"y">>, <<"R", "e", "m", "e", "d", "i", "a", "t", "i", "o", "n", ":">> >>

\* C8: extract_section returns the lines after the first line that is the
\* label (trimmed, colon-stripped, case-insensitive) up to the first line that
\* ends a body or to the block end, joined by line breaks and trimmed, and the
\* empty string when no line is the label
ExtractSectionLaw ==
    (fn_done /\ "block" \in DOMAIN fn_args) =>
        LET block == fn_args.block
            name  == fn_args.section_name
            hits  == {i \in 1..Len(block) :
                         str_lower(str_rstrip(str_strip(block[i]), {":"})) = str_lower(name)}
        IN  /\ hits = {} => fn_ret = <<>>
            /\ hits # {} =>
                  LET idx   == Least(hits)
                      stops == {j \in (idx + 1)..Len(block) : EndsBody(block[j])}
                      stop  == IF stops = {} THEN Len(block) + 1 ELSE Least(stops)
                  IN  fn_ret = str_strip(str_join(<<"\n">>, SubSeq(block, idx + 1, stop - 1)))
            /\ (block = RoundTripBlock /\ name = <<"D", "e", "s", "c", "r", "i", "p", "t", "i", "o", "n">>) => fn_ret = <<"x", "\n", "y">>
            /\ (block = RoundTripBlock /\ name = <<"R", "e", "m", "e", "d", "i", "a", "t", "i", "o", "n">>) => fn_ret = <<>>

\* C8 witness: Description of the round-trip block is its two narrative lines
ExtractSectionWitness ==
    /\ fn_done
    /\ "block" \in DOMAIN fn_args
    /\ fn_args.block = RoundTripBlock
    /\ fn_args.section_name = <<"D", "e", "s", "c", "r", "i", "p", "t", "i", "o", "n">>
    /\ fn_ret = <<"x", "\n", "y">>

\* C9: a missing PDF aborts before extract_text; zero Records abort before the
\* output directory is made and before write_word; in both cases nothing is
\* saved and nothing printed; the confirmation is printed only after
\* write_word has returned
AbortsBeforeOutput ==
    /\ ~pdf_exists => /\ pc \in {"check_pdf", "exit"}
                      /\ ~extract_called /\ ~dir_created /\ ~saved /\ ~printed
    /\ (pc = "exit" /\ ~pdf_exists) => exit_msg = "PDF not found"
    /\ exit_msg = "PDF not found" => ~pdf_exists
    /\ (pc \in {"exit", "write", "print", "done"} /\ extract_called /\ controls = <<>>) =>
          /\ pc = "exit"
          /\ exit_msg \in {"No controls detected", "uncaught exception"}
          /\ ~dir_created /\ ~saved /\ ~printed /\ doc = <<>>
    /\ exit_msg = "No controls detected" => controls = <<>>
    /\ dir_created => controls # <<>>
    /\ saved => dir_created
    /\ printed => saved /\ pc = "done"

\* C9 witness: text was extracted and scanned, no Record was found, main exited
AbortWitness ==
    /\ pc = "exit"
    /\ exit_msg = "No controls detected"
    /\ lines # <<>>
    /\ ~dir_created /\ ~saved /\ ~printed

\* the raw lines text_to_lines reads: text.split("\n"), each right-stripped
RawLinesOf(text) ==
    LET rs == str_split(text, "\n")
    IN  [i \in 1..Len(rs) |-> str_rstrip(rs[i], WhiteSpace)]

\* a raw line that ends the narrative buffer
Breaking(line) ==
    /\ str_strip(line) # <<>>
    /\ \/ NUMERIC_HEADER_RX(line)
       \/ is_section_header(line)
       \/ TOC_TITLE_RX(str_strip(line))
       \/ is_toc_like(line)
       \/ is_table_header_line(line)
       \/ is_url_footnote(line)

\* a raw line that goes into the narrative buffer
Narrative(line) == str_strip(line) # <<>> /\ ~Breaking(line)

\* a TOC title, a TOC artifact or a static table-header caption
DroppedKind(line) ==
    TOC_TITLE_RX(str_strip(line)) \/ is_toc_like(line) \/ is_table_header_line(line)

\* text_to_lines has run on raw
LinesMade == pc = "gather" /\ extract_called

\* a dropped kind, or a URL footnote when these count as dropped
Dropped(line, url_dropped) ==
    DroppedKind(line) \/ (url_dropped /\ is_url_footnote(line))

\* every breaking raw line that is not dropped is a logical line, and no
\* logical line is of a dropped kind
EmittedUnlessDropped(url_dropped) ==
    LinesMade =>
        /\ \A i \in 1..Len(RawLinesOf(raw)) :
              LET line == RawLinesOf(raw)[i]
              IN  (Breaking(line) /\ ~Dropped(line, url_dropped)) =>
                      \E k \in 1..Len(lines) : lines[k] = collapse_spaces(line)
        /\ \A k \in 1..Len(lines) : ~DroppedKind(lines[k])

\* C10 as stated: the breaking lines are emitted unless they are a TOC title,
\* a TOC artifact or a table-header caption; a URL footnote is emitted
BreakingLinesAsStated == EmittedUnlessDropped(FALSE)

\* C10: the breaking lines are emitted unless they are a TOC title, a TOC
\* artifact, a table-header caption or a URL footnote; there are no more
\* logical lines than narrative runs and emitted breaking lines, so a breaking
\* line of these four kinds gives no logical line; and every run of narrative
\* lines is flushed as one logical line (which the final scrub removes when it
\* reads as one of the dropped kinds)
BreakingLinesEmitted ==
    /\ EmittedUnlessDropped(TRUE)
    /\ LinesMade =>
          LET rl == RawLinesOf(raw)
          IN  Len(lines) <=
                  Cardinality({i \in 1..Len(rl) :
                                  Narrative(rl[i]) /\ (i = 1 \/ ~Narrative(rl[i - 1]))})
                  + Cardinality({i \in 1..Len(rl) :
                                    Breaking(rl[i]) /\ ~Dropped(rl[i], TRUE)})
    /\ LinesMade =>
          LET rl == RawLinesOf(raw)
          IN  \A i \in 1..Len(rl) : \A j \in i..Len(rl) :
                  (/\ \A m \in i..j : Narrative(rl[m])
                   /\ (i = 1 \/ ~Narrative(rl[i - 1]))
                   /\ (j = Len(rl) \/ ~Narrative(rl[j + 1])))
                  => LET flushed == collapse_spaces(str_join(<<" ">>,
                                        [m \in 1..(j - i + 1) |-> str_strip(rl[i + m - 1])]))
                     IN  DroppedKind(flushed) \/ \E k \in 1..Len(lines) : lines[k] = flushed

\* C10 witness: a URL footnote after narrative text and a numeric header: the
\* buffer is flushed, the header emitted, the footnote is no logical line
BreakingLinesWitness ==
    /\ LinesMade
    /\ Len(lines) = 2
    /\ \E i \in 1..Len(RawLinesOf(raw)) :
          /\ is_url_footnote(RawLinesOf(raw)[i])
          /\ i > 1
          /\ Narrative(RawLinesOf(raw)[i - 1])
          /\ \A k \in 1..Len(lines) : lines[k] # collapse_spaces(RawLinesOf(raw)[i])
    /\ \E i \in 1..Len(RawLinesOf(raw)) :
          NUMERIC_HEADER_RX(RawLinesOf(raw)[i]) /\ ~Dropped(RawLinesOf(raw)[i], TRUE)

====
